---- MODULE Spec2Model ----
(***************************************************************************)
(* Model of the Laconic Applications UI: the list view (AppList), the      *)
(* detail view (AppDeploymentPage), the URL prober (UrlList) and the       *)
(* /api/check-url route handler.                                           *)
(*                                                                         *)
(* JavaScript strings are modelled as sequences of one-character strings,  *)
(* so that startsWith, split, includes, toLowerCase and localeCompare are  *)
(* computed the way the runtime computes them.                             *)
(***************************************************************************)
EXTENDS Integers, Sequences, FiniteSets, TLC

(***************************************************************************)
(* Bounds of the model.                                                    *)
(***************************************************************************)
MaxNames == 2
MaxHexLen == 3

(***************************************************************************)
(* String helpers (ECMAScript String.prototype).                           *)
(***************************************************************************)
UpperChars == <<"A","B","C","D","E","F","G","H","I","J","K","L","M",
                "N","O","P","Q","R","S","T","U","V","W","X","Y","Z">>
LowerChars == <<"a","b","c","d","e","f","g","h","i","j","k","l","m",
                "n","o","p","q","r","s","t","u","v","w","x","y","z">>

IndexOf(seq, c) ==
  IF \E i \in 1..Len(seq) : seq[i] = c
  THEN CHOOSE i \in 1..Len(seq) : seq[i] = c /\ \A j \in 1..(i-1) : seq[j] # c
  ELSE 0

LowerChar(c) == IF IndexOf(UpperChars, c) > 0 THEN LowerChars[IndexOf(UpperChars, c)] ELSE c

toLowerCase(s) == [i \in 1..Len(s) |-> LowerChar(s[i])]

startsWith(s, p) == Len(s) >= Len(p) /\ SubSeq(s, 1, Len(p)) = p

includes(s, t) == \E i \in 0..(Len(s) - Len(t)) : SubSeq(s, i + 1, i + Len(t)) = t

\* s.split(sep) for a one-character separator: the segments between separators.
RECURSIVE split(_, _)
split(s, sep) ==
  LET k == IndexOf(s, sep) IN
  IF k = 0 THEN <<s>>
  ELSE <<SubSeq(s, 1, k - 1)>> \o split(SubSeq(s, k + 1, Len(s)), sep)

(***************************************************************************)
(* getAuthority (Applist.tsx).                                             *)
(***************************************************************************)
LrnPrefix == <<"l","r","n",":","/","/">>
Unknown == <<"U","n","k","n","o","w","n">>

\* names.find(name => name.startsWith('lrn://')): index of the first match, 0 if none.
FindLrn(names) ==
  IF \E i \in 1..Len(names) : startsWith(names[i], LrnPrefix)
  THEN CHOOSE i \in 1..Len(names) :
         /\ startsWith(names[i], LrnPrefix)
         /\ \A j \in 1..(i-1) : ~startsWith(names[j], LrnPrefix)
  ELSE 0

\* The segment one further along: parts[3] || 'Unknown'.
PartsAuthority_NextSegment(parts) ==
  IF Len(parts) >= 4 /\ parts[4] # <<>> THEN parts[4] ELSE Unknown

\* parts[2] || 'Unknown' (zero-based index 2 is the third segment).
PartsAuthority(parts) ==
  IF Len(parts) >= 3 /\ parts[3] # <<>> THEN parts[3] ELSE Unknown

getAuthority(names) ==
  LET k == FindLrn(names) IN
  IF k > 0 THEN PartsAuthority(split(names[k], "/")) ELSE Unknown

(***************************************************************************)
(* hexToBech32 (Applist.tsx): Buffer.from(hex, 'hex'), bech32.toWords and  *)
(* bech32.encode('laconic', words), computed as the runtime and the bech32 *)
(* package compute them.                                                   *)
(***************************************************************************)
HexDigits == <<"0","1","2","3","4","5","6","7","8","9","a","b","c","d","e","f">>

\* Value of a hexadecimal digit (either case), -1 for any other character.
HexVal(c) == IndexOf(HexDigits, LowerChar(c)) - 1

\* Buffer.from(s, 'hex'): pairs of digits are decoded from the left; decoding
\* stops, without raising, at the first pair that is not two hex digits, and a
\* trailing single character is dropped.
RECURSIVE BufferFromHexAt(_, _)
BufferFromHexAt(s, i) ==
  IF i + 1 > Len(s) THEN <<>>
  ELSE IF HexVal(s[i]) < 0 \/ HexVal(s[i + 1]) < 0 THEN <<>>
  ELSE <<16 * HexVal(s[i]) + HexVal(s[i + 1])>> \o BufferFromHexAt(s, i + 2)

BufferFromHex(s) == BufferFromHexAt(s, 1)

\* The inner while loop of convert(): emit 5-bit groups while bits >= 5.
RECURSIVE EmitWords(_, _)
EmitWords(value, bits) ==
  IF bits >= 5
  THEN <<(value \div (2 ^ (bits - 5))) % 32>> \o EmitWords(value, bits - 5)
  ELSE <<>>

\* bech32.toWords(bytes) = convert(bytes, 8, 5, true). Only the low bits of the
\* accumulator are ever read, so it is kept modulo 2^bits between bytes.
RECURSIVE ConvertFrom(_, _, _, _)
ConvertFrom(data, i, value, bits) ==
  IF i > Len(data)
  THEN IF bits > 0 THEN <<(value * (2 ^ (5 - bits))) % 32>> ELSE <<>>
  ELSE LET v == value * 256 + data[i]
           b == bits + 8
       IN EmitWords(v, b) \o ConvertFrom(data, i + 1, v % (2 ^ (b % 5)), b % 5)

toWords(bytes) == ConvertFrom(bytes, 1, 0, 0)

\* Bit i of a ^ b, in place.
XorBit(a, b, i) == ((((a \div (2 ^ i)) % 2) + ((b \div (2 ^ i)) % 2)) % 2) * (2 ^ i)

\* a ^ b on the 30-bit values of the checksum.
Xor(a, b) ==
  ((((XorBit(a, b, 0) + XorBit(a, b, 1) + XorBit(a, b, 2))
      + (XorBit(a, b, 3) + XorBit(a, b, 4)))
   + ((XorBit(a, b, 5) + XorBit(a, b, 6) + XorBit(a, b, 7))
      + (XorBit(a, b, 8) + XorBit(a, b, 9)))
   + ((XorBit(a, b, 10) + XorBit(a, b, 11) + XorBit(a, b, 12))
      + (XorBit(a, b, 13) + XorBit(a, b, 14))))
   + (((XorBit(a, b, 15) + XorBit(a, b, 16) + XorBit(a, b, 17))
      + (XorBit(a, b, 18) + XorBit(a, b, 19)))
   + ((XorBit(a, b, 20) + XorBit(a, b, 21) + XorBit(a, b, 22))
      + (XorBit(a, b, 23) + XorBit(a, b, 24)))
   + ((XorBit(a, b, 25) + XorBit(a, b, 26) + XorBit(a, b, 27))
      + (XorBit(a, b, 28) + XorBit(a, b, 29)))))

\* The generator constants of polymodStep.
GEN == <<996825010, 642813549, 513874426, 1027748829, 705979059>>

\* -((b >> i) & 1) & GEN[i]
GenIf(b, i) == IF (b \div (2 ^ (i - 1))) % 2 = 1 THEN GEN[i] ELSE 0

polymodStep(pre) ==
  LET b == pre \div (2 ^ 25) IN
  Xor(Xor(Xor(Xor(Xor((pre % (2 ^ 25)) * 32, GenIf(b, 1)), GenIf(b, 2)), GenIf(b, 3)),
          GenIf(b, 4)), GenIf(b, 5))

Prefix == <<"l","a","c","o","n","i","c">>
ALPHABET == <<"q","p","z","r","y","9","x","8","g","f","2","t","v","d","w","0",
              "s","3","j","n","5","4","k","h","c","e","6","m","u","a","7","l">>

\* charCodeAt for the lower-case letters of the prefix.
CharCode(c) == 96 + IndexOf(LowerChars, c)

\* The checksum is a 30-bit value, never negative; testing it first makes each
\* step of these loops work on the computed value of the step before.
RECURSIVE PrefixHigh(_, _, _)
PrefixHigh(p, i, chk) ==
  IF chk < 0 \/ i > Len(p) THEN chk
  ELSE PrefixHigh(p, i + 1, Xor(polymodStep(chk), CharCode(p[i]) \div 32))

RECURSIVE PrefixLow(_, _, _)
PrefixLow(p, i, chk) ==
  IF chk < 0 \/ i > Len(p) THEN chk
  ELSE PrefixLow(p, i + 1, Xor(polymodStep(chk), CharCode(p[i]) % 32))

prefixChk(p) == PrefixLow(p, 1, polymodStep(PrefixHigh(p, 1, 1)))

\* The checksum state after the prefix 'laconic' (a constant of the encoder).
LaconicChk == prefixChk(Prefix)

RECURSIVE DataChk(_, _, _)
DataChk(words, i, chk) ==
  IF chk < 0 \/ i > Len(words) THEN chk
  ELSE DataChk(words, i + 1, Xor(polymodStep(chk), words[i]))

RECURSIVE SixSteps(_, _)
SixSteps(chk, n) == IF chk < 0 \/ n = 0 THEN chk ELSE SixSteps(polymodStep(chk), n - 1)

\* The length limit of bech32.encode (its third parameter's default).
LIMIT == 90

EncodeExceeds(words) == Len(Prefix) + 7 + Len(words) > LIMIT

\* bech32.encode('laconic', words) when it does not throw.
EncodeText(words) ==
  LET chk == Xor(SixSteps(DataChk(words, 1, LaconicChk), 6), 1) IN
  Prefix \o <<"1">>
    \o [i \in 1..Len(words) |-> ALPHABET[words[i] + 1]]
    \o [i \in 1..6 |-> ALPHABET[((chk \div (2 ^ ((6 - i) * 5))) % 32) + 1]]

\* The body of the try block: does it throw?
ConversionThrows(hexAddress) == EncodeExceeds(toWords(BufferFromHex(hexAddress)))

\* try { return bech32.encode(...) } catch { return hexAddress }
hexToBech32(hexAddress) ==
  IF ConversionThrows(hexAddress) THEN hexAddress
  ELSE EncodeText(toWords(BufferFromHex(hexAddress)))

(***************************************************************************)
(* State.                                                                  *)
(***************************************************************************)
VARIABLES
  aPc, aNames, aResult,      \* one call of getAuthority: position, argument, result
  cPc, cInput, cResult,      \* one call of hexToBech32: position, argument, result
  requests,                  \* /api/check-url: the handler invocations, by slot
  deployment,                \* UrlList: the deployment prop
  urlStatuses,               \* UrlList: the status map (useState)
  effectDue,                 \* UrlList: the [deployment] effect has yet to run
  runs,                      \* UrlList: the invocations of checkUrls so far
  page,                      \* the route that was loaded: "list" or "detail"
  now,                       \* the wall clock (new Date()), in days
  apps, sortOption, searchTerm, isLoading,   \* AppList: its four useState cells
  listFetch,                 \* AppList: fetchApps is "due", "pending" or "done"
  listOutcome,               \* AppList: how the last fetchApps ended
  appId, searchParams,       \* AppDeploymentPage: useParams().appID, useSearchParams()
  appInfo, deployments, dIsLoading,   \* AppDeploymentPage: its three useState cells
  detailEffectDue,           \* AppDeploymentPage: the [searchParams, appId] effect has yet to run
  fetches,                   \* AppDeploymentPage: the invocations of fetchDeployments so far
  detailOutcome              \* AppDeploymentPage: how the last fetchDeployments to end ended

authVars == <<aPc, aNames, aResult>>
codecVars == <<cPc, cInput, cResult>>
routeVars == <<requests>>
urlVars == <<deployment, urlStatuses, effectDue, runs>>
listVars == <<apps, sortOption, searchTerm, isLoading, listFetch, listOutcome>>
detailVars ==
  <<appId, searchParams, appInfo, deployments, dIsLoading, detailEffectDue, fetches,
    detailOutcome>>
viewVars == <<page, now, listVars, detailVars>>
vars == <<authVars, codecVars, routeVars, urlVars, viewVars>>

\* A component that is not part of the specification at hand stays unused.
AuthIdle == aPc = "unused" /\ aNames = <<>> /\ aResult = <<>>
CodecIdle == cPc = "unused" /\ cInput = <<>> /\ cResult = <<>>
RouteIdle == requests = <<>>
UrlIdle == deployment = <<>> /\ urlStatuses = <<>> /\ effectDue = FALSE /\ runs = <<>>
ListIdle ==
  /\ apps = <<>> /\ sortOption = "time" /\ searchTerm = <<>> /\ isLoading = TRUE
  /\ listFetch = "unused" /\ listOutcome = "none"
DetailIdle ==
  /\ appId = "" /\ searchParams = <<>> /\ appInfo = <<>> /\ deployments = <<>>
  /\ dIsLoading = TRUE /\ detailEffectDue = FALSE /\ fetches = <<>>
  /\ detailOutcome = "none"
ViewIdle == page = "none" /\ now = 0 /\ ListIdle /\ DetailIdle

(***************************************************************************)
(* getAuthority applied to every small names array.                        *)
(***************************************************************************)
LrnFooBarBaz == LrnPrefix \o <<"f","o","o","/","b","a","r","/","b","a","z">>
Nope == <<"n","o","p","e">>

NamePool ==
  { LrnFooBarBaz, Nope, LrnPrefix, LrnPrefix \o <<"/","x">>, LrnPrefix \o <<"a">>,
    <<"l","r","n",":","/","a">>, <<>>, <<"x">> \o LrnPrefix \o <<"q">> }

RECURSIVE SeqsUpTo(_, _)
SeqsUpTo(S, n) ==
  IF n = 0 THEN { <<>> }
  ELSE LET shorter == SeqsUpTo(S, n - 1) IN
       shorter \cup { Append(q, x) : q \in { t \in shorter : Len(t) = n - 1 }, x \in S }

AuthInit ==
  /\ aPc = "call"
  /\ aNames \in SeqsUpTo(NamePool, MaxNames)
  /\ aResult = <<>>
  /\ CodecIdle /\ RouteIdle /\ UrlIdle /\ ViewIdle

CallGetAuthority ==
  /\ aPc = "call"
  /\ aResult' = getAuthority(aNames)
  /\ aPc' = "returned"
  /\ UNCHANGED <<aNames, codecVars, routeVars, urlVars, viewVars>>

AuthNext == CallGetAuthority

SpecAuthority == AuthInit /\ [][AuthNext]_vars

(***************************************************************************)
(* hexToBech32 applied to every short string over a few characters, and to *)
(* one well-formed address too long for the encoder.                       *)
(***************************************************************************)
HexChars == {"0", "a", "F", "z"}
LongHex == [i \in 1..96 |-> "a"]

CodecInit ==
  /\ cPc = "call"
  /\ cInput \in SeqsUpTo(HexChars, MaxHexLen) \cup {LongHex}
  /\ cResult = <<>>
  /\ AuthIdle /\ RouteIdle /\ UrlIdle /\ ViewIdle

CallHexToBech32 ==
  /\ cPc = "call"
  /\ cResult' = hexToBech32(cInput)
  /\ cPc' = "returned"
  /\ UNCHANGED <<cInput, authVars, routeVars, urlVars, viewVars>>

CodecNext == CallHexToBech32

SpecCodec == CodecInit /\ [][CodecNext]_vars

(***************************************************************************)
(* GET /api/check-url (route.ts). Invocations of the handler are            *)
(* independent of each other; each slot is one invocation.                 *)
(***************************************************************************)
MaxRequests == 2

\* searchParams.get('url'): null when the parameter is missing.
NoParam == [has |-> FALSE, value |-> ""]
UrlParams ==
  { NoParam, [has |-> TRUE, value |-> ""], [has |-> TRUE, value |-> "not a url"],
    [has |-> TRUE, value |-> "http://a"] }

\* What fetch(url, {method: 'HEAD'}) does: it rejects, or resolves with a status.
Rejected == [threw |-> TRUE, status |-> 0]
Resolved(st) == [threw |-> FALSE, status |-> st]
FetchOutcomes(param) ==
  IF param.value = "not a url" THEN {Rejected}
  ELSE {Rejected} \cup { Resolved(st) : st \in {200, 204, 299, 304, 404, 500} }

NoResponse == [kind |-> "none", status |-> 0, isAvailable |-> FALSE]
IdleRequest == [pc |-> "idle", url |-> NoParam, upstream |-> Rejected, response |-> NoResponse]

\* if (!url)
ParamMissing(param) == ~param.has \/ param.value = ""

\* NextResponse.json({ error: ... }, { status: 400 })
BadRequest == [kind |-> "error", status |-> 400, isAvailable |-> FALSE]

\* Response.ok of the fetch standard.
ResponseOk(st) == st >= 200 /\ st <= 299

\* NextResponse.json({ isAvailable }): the status defaults to 200.
JsonIsAvailable(flag) == [kind |-> "isAvailable", status |-> 200, isAvailable |-> flag]

\* The handler without its catch block: a rejected HEAD request escapes.
SettledResponse_NoCatch(outcome) ==
  IF outcome.threw THEN [kind |-> "exception", status |-> 500, isAvailable |-> FALSE]
  ELSE JsonIsAvailable(ResponseOk(outcome.status))

\* try { ... return json({isAvailable: response.ok}) } catch { return json({isAvailable: false}) }
SettledResponse(outcome) ==
  IF outcome.threw THEN JsonIsAvailable(FALSE)
  ELSE JsonIsAvailable(ResponseOk(outcome.status))

RouteInit ==
  /\ requests = [s \in 1..MaxRequests |-> IdleRequest]
  /\ AuthIdle /\ CodecIdle /\ UrlIdle /\ ViewIdle

\* The handler starts: it reads the parameter and answers 400 or starts the HEAD request.
GET(s, param) ==
  /\ requests[s].pc = "idle"
  /\ requests' = [requests EXCEPT ![s] =
       IF ParamMissing(param)
       THEN [pc |-> "done", url |-> param, upstream |-> Rejected, response |-> BadRequest]
       ELSE [pc |-> "awaitFetch", url |-> param, upstream |-> Rejected, response |-> NoResponse]]
  /\ UNCHANGED <<authVars, codecVars, urlVars, viewVars>>

\* The awaited HEAD request settles and the handler answers.
HeadSettles(s) ==
  /\ requests[s].pc = "awaitFetch"
  /\ \E outcome \in FetchOutcomes(requests[s].url) :
       requests' = [requests EXCEPT ![s] =
         [pc |-> "done", url |-> requests[s].url, upstream |-> outcome,
          response |-> SettledResponse(outcome)]]
  /\ UNCHANGED <<authVars, codecVars, urlVars, viewVars>>

RouteNext ==
  \/ \E s \in 1..MaxRequests, param \in UrlParams : GET(s, param)
  \/ \E s \in 1..MaxRequests : HeadSettles(s)

SpecRoute == RouteInit /\ [][RouteNext]_vars

(***************************************************************************)
(* UrlList (detail page): the status map and the checkUrls effect.         *)
(* A deployment is its attribute list; a URL is a string; the status map   *)
(* is a function from URL strings, as the keys of a JavaScript object.     *)
(***************************************************************************)
MaxRuns == 2

StringValue(str) == [has |-> TRUE, string |-> str]
NoStringValue == [has |-> FALSE, string |-> <<>>]
Attr(k, v) == [key |-> k, value |-> v]

\* The deployments a UrlList is given: url = "a,b", "a,a", "a,,b", "a", "",
\* a url attribute of another value type, no url attribute, and two url attributes.
DeploymentPool ==
  { <<Attr("url", StringValue(<<"a",",","b">>))>>,
    <<Attr("url", StringValue(<<"a",",","a">>))>>,
    <<Attr("url", StringValue(<<"a",",",",","b">>))>>,
    <<Attr("name", StringValue(<<"n">>)), Attr("url", StringValue(<<"a">>))>>,
    <<Attr("url", StringValue(<<>>))>>,
    <<Attr("url", NoStringValue)>>,
    <<Attr("name", StringValue(<<"n">>))>>,
    <<Attr("url", StringValue(<<"b">>)), Attr("url", StringValue(<<"a">>))>> }

\* attributes.find(attr => attr.key === k): index of the first match, 0 if none.
FindAttr(attributes, k) ==
  IF \E i \in 1..Len(attributes) : attributes[i].key = k
  THEN CHOOSE i \in 1..Len(attributes) :
         attributes[i].key = k /\ \A j \in 1..(i-1) : attributes[j].key # k
  ELSE 0

\* urlAttribute && urlAttribute.value.string
HasUrlString(d) ==
  LET k == FindAttr(d, "url") IN
  k > 0 /\ d[k].value.has /\ d[k].value.string # <<>>

\* urlAttribute.value.string.split(',')
UrlsOf(d) == split(d[FindAttr(d, "url")].value.string, ",")

\* Object.fromEntries(urls.map(url => [url, 'checking']))
InitialStatuses(urls) == [u \in { urls[i] : i \in 1..Len(urls) } |-> "checking"]

\* The updater without the spread of prev: ({ [url]: status })
WithStatus_NoSpread(prev, url, status) == [u \in {url} |-> status]

\* prev => ({ ...prev, [url]: status })
WithStatus(prev, url, status) ==
  [u \in DOMAIN prev \cup {url} |-> IF u = url THEN status ELSE prev[u]]

\* data.isAvailable ? 'available' : 'unavailable'
StatusOfBody(body) == IF body = "isAvailableTrue" THEN "available" ELSE "unavailable"

\* What `await fetch('/api/check-url?url=...')` yields: a rejection, or a response
\* whose body is {isAvailable: true}, {isAvailable: false}, the handler's 400
\* {error} (the only answer to an empty url parameter), or not JSON at all.
ProbeResponses(url) ==
  IF url = <<>> THEN {"rejected", "errorBody", "notJson"}
  ELSE {"rejected", "isAvailableTrue", "isAvailableFalse", "notJson"}

\* The loop moves on: the next fetch is issued in the same turn, or the run ends.
Advance(run) ==
  IF run.i < Len(run.urls)
  THEN [run EXCEPT !.i = run.i + 1, !.pc = "awaitFetch", !.body = "none"]
  ELSE [run EXCEPT !.pc = "done", !.body = "none"]

UrlListInit ==
  /\ deployment \in DeploymentPool
  /\ urlStatuses = <<>>
  /\ effectDue = TRUE
  /\ runs = <<>>
  /\ AuthIdle /\ CodecIdle /\ RouteIdle /\ ViewIdle

\* The parent renders the component with another deployment object.
DeploymentChanges(d) ==
  /\ ~effectDue
  /\ Len(runs) < MaxRuns
  /\ deployment' = d
  /\ effectDue' = TRUE
  /\ UNCHANGED <<urlStatuses, runs, authVars, codecVars, routeVars, viewVars>>

\* useEffect(..., [deployment]) runs checkUrls up to its first await: the map is
\* replaced by the initial statuses and the first probe is issued.
checkUrls ==
  /\ effectDue
  /\ effectDue' = FALSE
  /\ IF HasUrlString(deployment)
     THEN /\ urlStatuses' = InitialStatuses(UrlsOf(deployment))
          /\ runs' = Append(runs, [urls |-> UrlsOf(deployment), i |-> 1,
                                   pc |-> "awaitFetch", body |-> "none"])
     ELSE /\ runs' = Append(runs, [urls |-> <<>>, i |-> 0, pc |-> "done", body |-> "none"])
          /\ UNCHANGED urlStatuses
  /\ UNCHANGED <<deployment, authVars, codecVars, routeVars, viewVars>>

\* `await fetch(...)` settles: a rejection is caught and recorded as unavailable;
\* a response goes on to `await response.json()`.
ProbeFetchSettles(r) ==
  /\ runs[r].pc = "awaitFetch"
  /\ \E resp \in ProbeResponses(runs[r].urls[runs[r].i]) :
       LET run == runs[r]
           url == run.urls[run.i]
       IN IF resp = "rejected"
          THEN /\ urlStatuses' = WithStatus(urlStatuses, url, "unavailable")
               /\ runs' = [runs EXCEPT ![r] = Advance(run)]
          ELSE /\ runs' = [runs EXCEPT ![r] = [run EXCEPT !.pc = "awaitJson", !.body = resp]]
               /\ UNCHANGED urlStatuses
  /\ UNCHANGED <<deployment, effectDue, authVars, codecVars, routeVars, viewVars>>

\* `await response.json()` settles: a parse failure is caught and recorded as
\* unavailable; otherwise the status follows data.isAvailable.
ProbeJsonSettles(r) ==
  /\ runs[r].pc = "awaitJson"
  /\ LET run == runs[r]
         url == run.urls[run.i]
     IN /\ urlStatuses' = WithStatus(urlStatuses, url,
                             IF run.body = "notJson" THEN "unavailable"
                             ELSE StatusOfBody(run.body))
        /\ runs' = [runs EXCEPT ![r] = Advance(run)]
  /\ UNCHANGED <<deployment, effectDue, authVars, codecVars, routeVars, viewVars>>

UrlListNext ==
  \/ \E d \in DeploymentPool : DeploymentChanges(d)
  \/ checkUrls
  \/ \E r \in DOMAIN runs : ProbeFetchSettles(r)
  \/ \E r \in DOMAIN runs : ProbeJsonSettles(r)

SpecUrlList == UrlListInit /\ [][UrlListNext]_vars

(***************************************************************************)
(* AppList (Applist.tsx): the fetched records, the statistics and the      *)
(* filtered and sorted list, all recomputed on every render.               *)
(***************************************************************************)
MaxApps == 2
MaxTicks == 2
ThirtyDays == 30

UnnamedApp == <<"U","n","n","a","m","e","d"," ","A","p","p">>

\* attributes.find(attr => attr.key === key)?.value.string || fallback
AttrString(attributes, key, fallback) ==
  LET k == FindAttr(attributes, key) IN
  IF k > 0 /\ attributes[k].value.has /\ attributes[k].value.string # <<>>
  THEN attributes[k].value.string
  ELSE fallback

\* The heading of a card (render): the name attribute or 'Unnamed App'.
DisplayName(app) == AttrString(app.attributes, "name", UnnamedApp)

\* The name the filter and the sort use: the name attribute or ''.
FilterName(app) == AttrString(app.attributes, "name", <<>>)

\* hexToBech32(app.owners[0] || '')
FirstOwner(app) == hexToBech32(IF Len(app.owners) > 0 THEN app.owners[1] ELSE <<>>)

\* String.prototype.localeCompare under the default collation, for the
\* characters that occur here: strings are first compared letter by letter
\* ignoring case (space, then punctuation, then digits, then letters), and
\* strings equal up to case are ordered lower case first.
CollationOrder ==
  <<" ", ":", "/", "0","1","2","3","4","5","6","7","8","9">> \o LowerChars

PrimaryRank(c) == IndexOf(CollationOrder, LowerChar(c))

RECURSIVE PrimaryCompare(_, _, _)
PrimaryCompare(a, b, i) ==
  IF i > Len(a) /\ i > Len(b) THEN 0
  ELSE IF i > Len(a) THEN -1
  ELSE IF i > Len(b) THEN 1
  ELSE IF PrimaryRank(a[i]) < PrimaryRank(b[i]) THEN -1
  ELSE IF PrimaryRank(a[i]) > PrimaryRank(b[i]) THEN 1
  ELSE PrimaryCompare(a, b, i + 1)

RECURSIVE CaseCompare(_, _, _)
CaseCompare(a, b, i) ==
  IF i > Len(a) THEN 0
  ELSE IF a[i] = b[i] THEN CaseCompare(a, b, i + 1)
  ELSE IF a[i] = LowerChar(a[i]) THEN -1 ELSE 1

localeCompare(a, b) ==
  IF PrimaryCompare(a, b, 1) # 0 THEN PrimaryCompare(a, b, 1) ELSE CaseCompare(a, b, 1)

\* The predicate of apps.filter(...).
MatchesSearch(app, term) ==
  LET searchLower == toLowerCase(term) IN
  \/ includes(toLowerCase(FilterName(app)), searchLower)
  \/ includes(toLowerCase(getAuthority(app.names)), searchLower)
  \/ includes(toLowerCase(FirstOwner(app)), searchLower)

\* Array.prototype.filter: a new array, in the order of the source.
RECURSIVE FilterApps(_, _, _)
FilterApps(list, term, i) ==
  IF i > Len(list) THEN <<>>
  ELSE (IF MatchesSearch(list[i], term) THEN <<list[i]>> ELSE <<>>)
         \o FilterApps(list, term, i + 1)

\* The comparator of .sort(...): negative, zero or positive.
CompareApps(option, a, b) ==
  IF option = "time" THEN b.createTime - a.createTime
  ELSE IF option = "name" THEN localeCompare(FilterName(a), FilterName(b))
  ELSE IF option = "authority" THEN localeCompare(getAuthority(a.names), getAuthority(b.names))
  ELSE IF option = "owner" THEN localeCompare(FirstOwner(a), FirstOwner(b))
  ELSE 0

\* Array.prototype.sort is stable; on a short array it is an insertion sort:
\* each element goes after the last element that does not compare greater.
RECURSIVE InsertApp(_, _, _)
InsertApp(sorted, x, option) ==
  IF sorted = <<>> THEN <<x>>
  ELSE IF CompareApps(option, sorted[Len(sorted)], x) > 0
       THEN Append(InsertApp(SubSeq(sorted, 1, Len(sorted) - 1), x, option),
                   sorted[Len(sorted)])
       ELSE Append(sorted, x)

RECURSIVE SortApps(_, _, _)
SortApps(list, option, n) ==
  IF n = 0 THEN <<>> ELSE InsertApp(SortApps(list, option, n - 1), list[n], option)

SortedBy(list, option) == SortApps(list, option, Len(list))

\* const filteredAndSortedApps = apps.filter(...).sort(...)
filteredAndSortedApps == SortedBy(FilterApps(apps, searchTerm, 1), sortOption)

\* new Set(list.map(app => getAuthority(app.names))), built by insertion.
RECURSIVE AuthoritySet(_, _)
AuthoritySet(list, n) ==
  IF n = 0 THEN {} ELSE AuthoritySet(list, n - 1) \cup {getAuthority(list[n].names)}

\* creationDate > thirtyDaysAgo, with `clock` the value of new Date()
CreatedRecently(app, clock) == app.createTime > clock - ThirtyDays

\* expiryDate < thirtyDaysLater
ExpiresSoon(app, clock) == app.expiryTime < clock + ThirtyDays

\* The statistics computed over the list the search term leaves.
StatsSource_Filtered(list, term) == FilterApps(list, term, 1)

\* The list the statistics of a render are computed over: the apps state, not
\* the list filtered by the search term.
StatsSource(list, term) == list

\* const stats = {...}, for the state a render sees.
statsOf(list, term, clock) ==
  LET source == StatsSource(list, term) IN
  [totalApps |-> Len(source),
   uniqueAuthorities |-> Cardinality(AuthoritySet(source, Len(source))),
   recentlyCreated |->
     Cardinality({ i \in 1..Len(source) : CreatedRecently(source[i], clock) }),
   soonExpiring |->
     Cardinality({ i \in 1..Len(source) : ExpiresSoon(source[i], clock) })]

stats == statsOf(apps, searchTerm, now)

totalApps == stats.totalApps
uniqueAuthorities == stats.uniqueAuthorities
recentlyCreated == stats.recentlyCreated
soonExpiring == stats.soonExpiring

\* The application records the upstream registry may hold. The page is loaded
\* on day 40; no record is created after that day.
RecordPool ==
  { [id |-> "r1", createTime |-> 10, expiryTime |-> 70, names |-> <<LrnFooBarBaz>>,
     owners |-> << <<"0","a">> >>,
     attributes |-> <<Attr("name", StringValue(<<"b">>))>>],
    [id |-> "r2", createTime |-> 39, expiryTime |-> 39, names |-> <<Nope>>,
     owners |-> <<>>,
     attributes |-> <<Attr("app_version", StringValue(<<"1">>))>>],
    [id |-> "r3", createTime |-> 39, expiryTime |-> 41,
     names |-> << <<"x">>, LrnPrefix \o <<"a">> >>,
     owners |-> << <<"z","z">> >>,
     attributes |-> <<Attr("name", StringValue(<<"B","a">>))>>],
    [id |-> "r4", createTime |-> 11, expiryTime |-> 69, names |-> <<>>,
     owners |-> << <<"F","F">>, <<"0","0">> >>,
     attributes |-> <<Attr("name", StringValue(<<"a">>)), Attr("name", StringValue(<<"c">>))>>] }

\* The record lists a query may return: records are distinct.
RecordLists ==
  { l \in SeqsUpTo(RecordPool, MaxApps) : \A i, j \in 1..Len(l) : i # j => l[i] # l[j] }

SearchTerms == { <<>>, <<"A","p","p">>, <<"b">>, <<"L","A","C">> }
SortOptions == {"time", "name", "authority", "owner"}

ListInit ==
  /\ page = "list"
  /\ now = 40
  /\ apps = <<>>
  /\ sortOption = "time"
  /\ searchTerm = <<>>
  /\ isLoading = TRUE
  /\ listFetch = "due"
  /\ listOutcome = "none"

\* useEffect(..., []) on mount: fetchApps runs up to `await axios.post(...)`.
fetchApps ==
  /\ page = "list"
  /\ listFetch = "due"
  /\ isLoading' = TRUE
  /\ listFetch' = "pending"
  /\ UNCHANGED <<apps, sortOption, searchTerm, listOutcome, page, now, detailVars>>
  /\ UNCHANGED <<authVars, codecVars, routeVars, urlVars>>

\* axios.post resolves with a body {data: {appDeploymentRecords: [...]}}:
\* setApps(...) and, in the finally block, setIsLoading(false).
FetchAppsResolves ==
  /\ page = "list"
  /\ listFetch = "pending"
  /\ \E records \in RecordLists : apps' = records
  /\ listOutcome' = "ok"
  /\ isLoading' = FALSE
  /\ listFetch' = "done"
  /\ UNCHANGED <<sortOption, searchTerm, page, now, detailVars>>
  /\ UNCHANGED <<authVars, codecVars, routeVars, urlVars>>

\* axios.post rejects (transport error, non-2xx status), or the body has no
\* data object (not JSON, or {errors: [...], data: null}) so that reading
\* response.data.data.appDeploymentRecords throws: the catch block logs, and
\* the finally block clears the loading flag.
FetchAppsFails ==
  /\ page = "list"
  /\ listFetch = "pending"
  /\ \E kind \in {"rejected", "notJson", "errorsNoData"} : listOutcome' = kind
  /\ isLoading' = FALSE
  /\ listFetch' = "done"
  /\ UNCHANGED <<apps, sortOption, searchTerm, page, now, detailVars>>
  /\ UNCHANGED <<authVars, codecVars, routeVars, urlVars>>

\* onChange of the search box (rendered once loading is over).
SetSearchTerm ==
  /\ page = "list"
  /\ ~isLoading
  /\ \E term \in SearchTerms : term # searchTerm /\ searchTerm' = term
  /\ UNCHANGED <<apps, sortOption, isLoading, listFetch, listOutcome, page, now, detailVars>>
  /\ UNCHANGED <<authVars, codecVars, routeVars, urlVars>>

\* onChange of the sort select.
SetSortOption ==
  /\ page = "list"
  /\ ~isLoading
  /\ \E option \in SortOptions : option # sortOption /\ sortOption' = option
  /\ UNCHANGED <<apps, searchTerm, isLoading, listFetch, listOutcome, page, now, detailVars>>
  /\ UNCHANGED <<authVars, codecVars, routeVars, urlVars>>

\* A day passes while the page is open.
Tick ==
  /\ page # "none"
  /\ now < 40 + MaxTicks
  /\ now' = now + 1
  /\ UNCHANGED <<page, listVars, detailVars>>
  /\ UNCHANGED <<authVars, codecVars, routeVars, urlVars>>

(***************************************************************************)
(* AppDeploymentPage (detail page): the query parameters, the deployment   *)
(* records and the fetchDeployments effect.                                *)
(***************************************************************************)
MaxFetches == 2

AppIds == {"A", "B", "C"}

\* The query strings of the navigation link, as far as the `name` parameter
\* goes: absent, or present with a value.
SearchParamsPool == { [name |-> NoStringValue], [name |-> StringValue(<<"b">>)] }

\* searchParams.get('name') || 'Unnamed App'. The six other fields of appInfo
\* are read from the query string in the same way and are not modelled.
AppInfoOf(query) ==
  [name |-> IF query.name.has /\ query.name.string # <<>> THEN query.name.string
            ELSE UnnamedApp]

DeploymentRecord(i, a) ==
  [id |-> i, application |-> a, names |-> << <<"d">> >>,
   attributes |-> <<Attr("url", StringValue(<<"a">>))>>]

\* What the registry answers to GetApplicationDeploymentRecords($appId): the
\* deployment records of that application (application C has none).
RecordsFor(a) ==
  IF a = "A" THEN <<DeploymentRecord("dA1", "A"), DeploymentRecord("dA2", "A")>>
  ELSE IF a = "B" THEN <<DeploymentRecord("dB1", "B")>>
  ELSE <<>>

\* The bodies a resolved fetch may carry: not JSON; {errors: [...]}; JSON
\* without a data object; {data: {appDeploymentRecords: [...]}}.
DetailBodies == {"notJson", "errors", "noData", "ok"}

DetailInit ==
  /\ page = "detail"
  /\ now = 40
  /\ appId \in AppIds
  /\ searchParams \in SearchParamsPool
  /\ appInfo = [name |-> <<>>]
  /\ deployments = <<>>
  /\ dIsLoading = TRUE
  /\ detailEffectDue = TRUE
  /\ fetches = <<>>
  /\ detailOutcome = "none"

\* useEffect(..., [searchParams, appId]): setAppInfo(...) and fetchDeployments()
\* up to `await fetch(...)`. The loading flag is not set here.
fetchDeployments ==
  /\ page = "detail"
  /\ detailEffectDue
  /\ detailEffectDue' = FALSE
  /\ appInfo' = AppInfoOf(searchParams)
  /\ fetches' = Append(fetches, [appId |-> appId, pc |-> "awaitFetch", body |-> "none"])
  /\ UNCHANGED <<appId, searchParams, deployments, dIsLoading, detailOutcome>>
  /\ UNCHANGED <<page, now, listVars, authVars, codecVars, routeVars, urlVars>>

\* Navigation changes the route parameter or the query string of the page.
ParamsChange ==
  /\ page = "detail"
  /\ ~detailEffectDue
  /\ Len(fetches) < MaxFetches
  /\ \E a \in AppIds, q \in SearchParamsPool :
       /\ <<a, q>> # <<appId, searchParams>>
       /\ appId' = a
       /\ searchParams' = q
  /\ detailEffectDue' = TRUE
  /\ UNCHANGED <<appInfo, deployments, dIsLoading, fetches, detailOutcome>>
  /\ UNCHANGED <<page, now, listVars, authVars, codecVars, routeVars, urlVars>>

\* `await fetch(...)` of invocation f rejects: catch logs, finally clears loading.
DeploymentsFetchRejects(f) ==
  /\ page = "detail"
  /\ fetches[f].pc = "awaitFetch"
  /\ fetches' = [fetches EXCEPT ![f].pc = "done"]
  /\ dIsLoading' = FALSE
  /\ detailOutcome' = "rejected"
  /\ UNCHANGED <<appId, searchParams, appInfo, deployments, detailEffectDue>>
  /\ UNCHANGED <<page, now, listVars, authVars, codecVars, routeVars, urlVars>>

\* `await fetch(...)` of invocation f resolves; `await response.json()` follows.
DeploymentsFetchResolves(f) ==
  /\ page = "detail"
  /\ fetches[f].pc = "awaitFetch"
  /\ \E body \in DetailBodies :
       fetches' = [fetches EXCEPT ![f].pc = "awaitJson", ![f].body = body]
  /\ UNCHANGED <<appId, searchParams, appInfo, deployments, dIsLoading, detailEffectDue,
                 detailOutcome>>
  /\ UNCHANGED <<page, now, listVars, authVars, codecVars, routeVars, urlVars>>

\* The deployments state after the body of invocation f was handled:
\* setDeployments(data.data.appDeploymentRecords) unless something threw.
DeploymentsAfter(f) ==
  IF fetches[f].body = "ok" THEN RecordsFor(fetches[f].appId) ELSE deployments

\* `await response.json()` of invocation f settles: a parse error, data.errors
\* or a missing data object throws into the catch block; otherwise the state
\* is set; the finally block clears the loading flag.
DeploymentsJsonSettles(f) ==
  /\ page = "detail"
  /\ fetches[f].pc = "awaitJson"
  /\ fetches' = [fetches EXCEPT ![f].pc = "done"]
  /\ deployments' = DeploymentsAfter(f)
  /\ dIsLoading' = FALSE
  /\ detailOutcome' = fetches[f].body
  /\ UNCHANGED <<appId, searchParams, appInfo, detailEffectDue>>
  /\ UNCHANGED <<page, now, listVars, authVars, codecVars, routeVars, urlVars>>

(***************************************************************************)
(* A page load: either route is loaded, and its component runs.            *)
(***************************************************************************)
Init ==
  /\ \/ ListInit /\ DetailIdle
     \/ DetailInit /\ ListIdle
  /\ AuthIdle /\ CodecIdle /\ RouteIdle /\ UrlIdle

Next ==
  \/ fetchApps
  \/ FetchAppsResolves
  \/ FetchAppsFails
  \/ SetSearchTerm
  \/ SetSortOption
  \/ Tick
  \/ fetchDeployments
  \/ ParamsChange
  \/ \E f \in DOMAIN fetches : DeploymentsFetchRejects(f)
  \/ \E f \in DOMAIN fetches : DeploymentsFetchResolves(f)
  \/ \E f \in DOMAIN fetches : DeploymentsJsonSettles(f)

Spec == Init /\ [][Next]_vars

(***************************************************************************)
(* Properties of getAuthority.                                             *)
(***************************************************************************)
Foo == <<"f","o","o">>
Bar == <<"b","a","r">>

\* The text of name after 'lrn://' up to, not including, the next '/'.
SegmentAfterScheme(name) ==
  LET rest == SubSeq(name, Len(LrnPrefix) + 1, Len(name))
      stop == IndexOf(rest, "/")
  IN IF stop = 0 THEN rest ELSE SubSeq(rest, 1, stop - 1)

\* C6 as stated: authority of ["lrn://foo/bar/baz"] is "bar" and authority of
\* ["nope"] is "Unknown".
C6_AsStated ==
  aPc = "returned" =>
    /\ (aNames = <<LrnFooBarBaz>> => aResult = Bar)
    /\ (aNames = <<Nope>> => aResult = Unknown)

\* C6 (amended): authority of ["lrn://foo/bar/baz"] is "foo", the segment that
\* directly follows 'lrn://', and authority of ["nope"] is "Unknown"; for any
\* names array the result is that segment of the first entry starting with
\* 'lrn://', and "Unknown" when there is no such entry or the segment is empty.
C6_Authority ==
  aPc = "returned" =>
    /\ (aNames = <<LrnFooBarBaz>> => aResult = Foo)
    /\ (aNames = <<Nope>> => aResult = Unknown)
    /\ LET hits == { i \in 1..Len(aNames) : startsWith(aNames[i], LrnPrefix) } IN
       IF hits = {} THEN aResult = Unknown
       ELSE LET first == CHOOSE i \in hits : \A j \in hits : i <= j
                seg == SegmentAfterScheme(aNames[first])
            IN aResult = (IF seg = <<>> THEN Unknown ELSE seg)

\* C6 witness: the scenario's call has returned, from an array whose second
\* entry is another lrn name.
C6_Witness ==
  /\ aPc = "returned"
  /\ Len(aNames) = 2
  /\ aNames[1] = LrnFooBarBaz
  /\ aNames[2] = LrnPrefix \o <<"a">>
  /\ aResult = Foo

(***************************************************************************)
(* Properties of hexToBech32.                                              *)
(***************************************************************************)
\* A string of hexadecimal digits, two per byte.
IsValidHex(s) == Len(s) % 2 = 0 /\ \A i \in 1..Len(s) : HexVal(s[i]) >= 0

\* C10 as stated: every input that is not valid hexadecimal is returned
\* unchanged, and only valid hexadecimal input yields a 'laconic'-prefixed
\* string.
C10_AsStated ==
  cPc = "returned" =>
    /\ (~IsValidHex(cInput) => cResult = cInput)
    /\ (startsWith(cResult, Prefix) => IsValidHex(cInput))

(***************************************************************************)
(* Properties of the /api/check-url handler.                               *)
(***************************************************************************)
\* C4: a finished invocation has answered 400 with an error body when the url
\* parameter is missing or empty; otherwise it has answered with HTTP success
\* and {isAvailable}, false when the HEAD request failed and the target's
\* success flag (status 200..299) when it completed; no invocation ends in an
\* exception.
C4_CheckUrl ==
  \A s \in DOMAIN requests :
    LET r == requests[s] IN
    r.pc = "done" =>
      /\ r.response.kind \in {"error", "isAvailable"}
      /\ IF ~r.url.has \/ r.url.value = ""
         THEN r.response.kind = "error" /\ r.response.status = 400
         ELSE /\ r.response.kind = "isAvailable"
              /\ r.response.status \in 200..299
              /\ r.upstream.threw => r.response.isAvailable = FALSE
              /\ ~r.upstream.threw =>
                   r.response.isAvailable = (r.upstream.status \in 200..299)

\* C4 witness: one invocation answered 400 for an empty parameter while another
\* answered isAvailable = false for a target that answered 404.
C4_Witness ==
  \E s, t \in DOMAIN requests :
    /\ requests[s].pc = "done" /\ requests[s].url = [has |-> TRUE, value |-> ""]
    /\ requests[s].response.status = 400
    /\ requests[t].pc = "done" /\ ~requests[t].upstream.threw
    /\ requests[t].upstream.status = 404
    /\ requests[t].response = JsonIsAvailable(FALSE)

(***************************************************************************)
(* Properties of UrlList.                                                  *)
(***************************************************************************)
Terminal == {"available", "unavailable"}

\* C1 as stated, within the first run of checkUrls: the map has an entry for
\* every extracted URL, and an entry that has reached 'available' or
\* 'unavailable' never changes again.
C1_AsStated ==
  [][ (Len(runs) = 1 /\ Len(runs') = 1) =>
        /\ \A i \in 1..Len(runs[1].urls) : runs[1].urls[i] \in DOMAIN urlStatuses
        /\ \A u \in DOMAIN urlStatuses :
             urlStatuses[u] \in Terminal => urlStatuses'[u] = urlStatuses[u] ]_vars

\* The position run r is waiting on, 0 when it waits on nothing.
InFlightAt(r) == IF runs[r].pc \in {"awaitFetch", "awaitJson"} THEN runs[r].i ELSE 0

\* The step records the result of `url` and nothing else: its entry becomes
\* terminal and every other entry of the map is what it was.
RecordsOnly(url) ==
  /\ DOMAIN urlStatuses' = DOMAIN urlStatuses \cup {url}
  /\ urlStatuses'[url] \in Terminal
  /\ \A v \in DOMAIN urlStatuses \ {url} : urlStatuses'[v] = urlStatuses[v]

\* A step of run r: the response of the probe in flight arrives (nothing is
\* recorded, nothing is issued), or the result of the probe in flight is
\* recorded and, in the same turn, the probe of the next position is issued
\* or the run ends after the last position.
RunStep(r) ==
  LET run == runs[r]
      new == runs'[r]
  IN /\ InFlightAt(r) > 0
     /\ new.urls = run.urls
     /\ \/ /\ run.pc = "awaitFetch" /\ new.pc = "awaitJson" /\ new.i = run.i
           /\ urlStatuses' = urlStatuses
        \/ /\ RecordsOnly(run.urls[run.i])
           /\ IF run.i < Len(run.urls)
              THEN new.pc = "awaitFetch" /\ new.i = run.i + 1
              ELSE new.pc = "done" /\ new.i = run.i

\* A run starts: every extracted URL is 'checking' and the probe of position 1
\* is the one issued.
RunStart(r) ==
  \/ runs'[r].urls = <<>> /\ runs'[r].pc = "done" /\ urlStatuses' = urlStatuses
  \/ /\ runs'[r].pc = "awaitFetch" /\ runs'[r].i = 1
     /\ DOMAIN urlStatuses' = { runs'[r].urls[i] : i \in 1..Len(runs'[r].urls) }
     /\ \A u \in DOMAIN urlStatuses' : urlStatuses'[u] = "checking"

\* While a run is the only one, the map shows its progress: the URLs before the
\* position in flight are terminal, and the URLs from that position on that
\* did not occur before it are still 'checking'.
PartialProgress ==
  (Len(runs) = 1 /\ InFlightAt(1) > 0) =>
     LET run == runs[1] IN
     /\ \A j \in 1..Len(run.urls) : run.urls[j] \in DOMAIN urlStatuses
     /\ \A u \in DOMAIN urlStatuses :
          IF \E k \in 1..(run.i - 1) : run.urls[k] = u
          THEN urlStatuses[u] \in Terminal
          ELSE urlStatuses[u] = "checking"

\* C11: within one run of checkUrls the probes are issued in the order of the
\* 'url' attribute, one at a time: the run waits on one position only, the
\* position moves from i to i+1 only in the step that records a terminal status
\* for the URL at i, the result recorded is always that of the position in
\* flight, and recording it leaves the entry of every other URL unchanged, so
\* entries not yet resolved stay 'checking'.
C11_SequentialProbes ==
  /\ [](PartialProgress /\ \A r \in DOMAIN runs : InFlightAt(r) \in 0..Len(runs[r].urls))
  /\ [][ /\ \A r \in DOMAIN runs : runs'[r] # runs[r] => RunStep(r)
         /\ \A r \in DOMAIN runs' \ DOMAIN runs : RunStart(r)
         /\ urlStatuses' # urlStatuses =>
              \/ Len(runs') = Len(runs) + 1
              \/ Cardinality({ r \in DOMAIN runs : runs'[r] # runs[r] }) = 1 ]_vars

\* C11 witness: in the run over "a,,b" the first two results are recorded, the
\* probe of the third position is in flight and its entry is still 'checking'.
C11_Witness ==
  /\ Len(runs) = 1
  /\ runs[1].urls = << <<"a">>, <<>>, <<"b">> >>
  /\ runs[1].i = 3 /\ runs[1].pc = "awaitFetch"
  /\ urlStatuses[<<"a">>] = "available"
  /\ urlStatuses[<<>>] = "unavailable"
  /\ urlStatuses[<<"b">>] = "checking"

(***************************************************************************)
(* Properties of the list view.                                            *)
(***************************************************************************)
Rendered(app) == \E j \in 1..Len(filteredAndSortedApps) : filteredAndSortedApps[j] = app

\* C5 as stated: a record whose display name (the name attribute, or 'Unnamed
\* App') contains the search term, ignoring case, is in the filtered result,
\* whatever the sort key.
C5_AsStated ==
  ~isLoading =>
    \A i \in 1..Len(apps) :
      includes(toLowerCase(DisplayName(apps[i])), toLowerCase(searchTerm))
        => Rendered(apps[i])

\* C7 as stated: recentlyCreated counts exactly the records created within the
\* last 30 days (a record created exactly 30 days ago is excluded), and
\* soonExpiring counts exactly the records that expire within the next 30 days
\* (a record that expired before now, or expires exactly 30 days ahead, is not
\* counted).
C7_AsStated ==
  /\ recentlyCreated =
       Cardinality({ i \in 1..Len(apps) : apps[i].createTime > now - 30 })
  /\ soonExpiring =
       Cardinality({ i \in 1..Len(apps) :
                       apps[i].expiryTime >= now /\ apps[i].expiryTime < now + 30 })

\* The positions of apps that hold the first record of their authority.
FirstOfAuthority ==
  { i \in 1..Len(apps) :
      \A j \in 1..(i - 1) : getAuthority(apps[j].names) # getAuthority(apps[i].names) }

\* The statistics of the render that follows a step.
StatsAfterStep ==
  { statsOf(list, term, clock) : list \in {apps'}, term \in {searchTerm'}, clock \in {now'} }

\* C8: the statistics are those of the full fetched record set: totalApps is the
\* number of fetched records and uniqueAuthorities the number of distinct
\* authorities among them ("Unknown" counting once), both 0 for an empty set;
\* and a change of the search term or of the sort key leaves the fetched
\* records and all four statistics unchanged.
C8_StatsOfFullSet ==
  /\ [](/\ totalApps = Len(apps)
        /\ uniqueAuthorities = Cardinality(FirstOfAuthority)
        /\ (apps = <<>> => totalApps = 0 /\ uniqueAuthorities = 0))
  /\ [][ (searchTerm' # searchTerm \/ sortOption' # sortOption)
           => (apps' = apps /\ StatsAfterStep = {stats}) ]_vars

\* C8 witness: two records without a parseable name are fetched, a search term
\* filters both out, and the statistics still count two records and one
\* authority.
C8_Witness ==
  /\ ~isLoading
  /\ Len(apps) = 2
  /\ \A i \in 1..2 : getAuthority(apps[i].names) = Unknown
  /\ searchTerm = <<"b">>
  /\ sortOption = "name"
  /\ filteredAndSortedApps = <<>>
  /\ totalApps = 2
  /\ uniqueAuthorities = 1

\* C9 as stated: the rendered list is the filtered set in a stable order: by
\* createTime, newest first, under key 'time'; by display name, ascending,
\* under key 'name'; and sorting the rendered list again leaves it unchanged.
C9_AsStated ==
  ~isLoading =>
    LET L == filteredAndSortedApps IN
    /\ \A i \in 1..Len(apps) : MatchesSearch(apps[i], searchTerm) <=> Rendered(apps[i])
    /\ SortedBy(L, sortOption) = L
    /\ sortOption = "time" =>
         \A i, j \in 1..Len(L) : i < j => L[i].createTime >= L[j].createTime
    /\ sortOption = "name" =>
         \A i, j \in 1..Len(L) :
           i < j => localeCompare(DisplayName(L[i]), DisplayName(L[j])) <= 0

(***************************************************************************)
(* Properties of the two views' fetches.                                   *)
(***************************************************************************)
\* C2 as stated: in both views, when a fetch has ended in a transport error, a
\* parse error or an upstream error payload, loading is cleared and the
\* displayed record set is empty, also when the fetch follows a successful one.
C2_AsStated ==
  /\ listOutcome \in {"rejected", "notJson", "errorsNoData"}
       => (~isLoading /\ apps = <<>>)
  /\ detailOutcome \in {"rejected", "notJson", "errors", "noData"}
       => (~dIsLoading /\ deployments = <<>>)

\* The invocations of fetchDeployments that have not ended.
DetailInFlight == { f \in DOMAIN fetches : fetches[f].pc # "done" }

\* The number of fetchApps invocations that have not ended.
ListInFlight == IF listFetch = "pending" THEN 1 ELSE 0

\* C3 as stated: a view issues one upstream query per page load and never has
\* two of its fetches in flight, also when the detail view's parameters change
\* while a fetch is pending.
C3_AsStated ==
  /\ ListInFlight <= 1
  /\ Cardinality(DetailInFlight) <= 1

\* Every invocation of fetchDeployments has run to its end and the effect has
\* nothing left to start.
DetailSettled ==
  /\ page = "detail"
  /\ ~detailEffectDue
  /\ fetches # <<>>
  /\ \A f \in DOMAIN fetches : fetches[f].pc = "done"

\* C12 as stated: once every issued deployment fetch has completed, and the
\* fetch issued last (the one for the current appId) returned records, the
\* records displayed are those returned for the current appId: the response
\* of an earlier fetch that arrives later does not overwrite them.
C12_AsStated ==
  (DetailSettled /\ fetches[Len(fetches)].body = "ok")
     => deployments = RecordsFor(appId)
====
